---- MODULE Spec2Model ----
(***************************************************************************)
(* Model of Health_system.py: the MOD-10 check (luhn_check), the flexible  *)
(* date parser (parse_date_flex), age_in_years, validate_record and the    *)
(* validation loop of main().                                              *)
(*                                                                         *)
(* A Python str is a sequence of characters; a character is a one-element  *)
(* token.  Non-ASCII characters are named by their code point ("u00B2").   *)
(* An Optional value is a sequence of length at most one: <<>> is None.    *)
(***************************************************************************)
EXTENDS Integers, Sequences, FiniteSets, TLC

VARIABLES
    pc,             \* position of the program being modelled
    raw_record,     \* validate_record: the raw record (label -> str)
    today,          \* the reference date
    outcome,        \* validate_record: what the call produced
    raw_records,    \* main: the extracted records
    idx,            \* main: number of records the loop has consumed
    valid_records,  \* main: accepted PatientRecords
    error_info,     \* main: (patient_id, errors) of rejected records
    counts,         \* main: total_count, valid_count, invalid_count
    number,         \* luhn_check: the argument
    luhn_result     \* luhn_check: "True", "False", "raised" or "none"

vars == <<pc, raw_record, today, outcome, raw_records, idx, valid_records,
          error_info, counts, number, luhn_result>>

(***************************************************************************)
(* Characters and the str predicates the program uses                      *)
(***************************************************************************)
AsciiDigits == <<"0", "1", "2", "3", "4", "5", "6", "7", "8", "9">>

\* ARABIC-INDIC DIGIT ZERO..NINE: category Nd, accepted by int() and by \d
ArabicIndicDigits == <<"u0660", "u0661", "u0662", "u0663", "u0664",
                       "u0665", "u0666", "u0667", "u0668", "u0669">>

\* SUPERSCRIPT TWO: category No; str.isdigit() is True, int() raises ValueError
SuperscriptDigits == {"u00B2"}

SeqRange(s) == {s[i] : i \in 1..Len(s)}

DecimalChars == SeqRange(AsciiDigits) \cup SeqRange(ArabicIndicDigits)

DigitChars == DecimalChars \cup SuperscriptDigits

\* " " and TAB; str.strip() removes both at the ends
WhitespaceChars == {" ", "\t"}

UpperChars == {"A", "B", "C", "D", "E", "F", "G", "H", "I", "J", "K", "L", "M",
               "N", "O", "P", "Q", "R", "S", "T", "U", "V", "W", "X", "Y", "Z",
               "u00C9"}

LowerChars == {"a", "b", "c", "d", "e", "f", "g", "h", "i", "j", "k", "l", "m",
               "n", "o", "p", "q", "r", "s", "t", "u", "v", "w", "x", "y", "z"}

\* CJK ideograph U+4E2D: alphabetic (Lo) but neither upper nor lower case
UncasedLetters == {"u4E2D"}

AlphaChars == UpperChars \cup LowerChars \cup UncasedLetters

\* int(c) for a one-character string c that int() accepts
IntOfChar(c) ==
    IF \E i \in 1..10 : AsciiDigits[i] = c
    THEN (CHOOSE i \in 1..10 : AsciiDigits[i] = c) - 1
    ELSE (CHOOSE i \in 1..10 : ArabicIndicDigits[i] = c) - 1

\* str.isdigit(): non-empty and every character is a digit character
IsDigit(s) == Len(s) > 0 /\ \A i \in 1..Len(s) : s[i] \in DigitChars

\* str.isalpha()
IsAlpha(s) == Len(s) > 0 /\ \A i \in 1..Len(s) : s[i] \in AlphaChars

\* str.isupper(): at least one cased character and no lowercase one
IsUpper(s) ==
    /\ \E i \in 1..Len(s) : s[i] \in UpperChars
    /\ \A i \in 1..Len(s) : s[i] \notin LowerChars

RECURSIVE LStrip(_)
LStrip(s) ==
    IF s # <<>> /\ Head(s) \in WhitespaceChars THEN LStrip(Tail(s)) ELSE s

RECURSIVE RStrip(_)
RStrip(s) ==
    IF s # <<>> /\ s[Len(s)] \in WhitespaceChars
    THEN RStrip(SubSeq(s, 1, Len(s) - 1))
    ELSE s

\* str.strip()
Strip(s) == RStrip(LStrip(s))

\* str.replace(" ", "")
RemoveSpaces(s) == SelectSeq(s, LAMBDA c : c # " ")

(***************************************************************************)
(* luhn_check                                                              *)
(***************************************************************************)
\* mutant: digits[:-1], the reversal forgotten
ReversedBody_NotReversed(digits) ==
    [i \in 1..(Len(digits) - 1) |-> digits[i]]

\* digits[:-1][::-1]
ReversedBody(digits) ==
    [i \in 1..(Len(digits) - 1) |-> digits[Len(digits) - i]]

\* mutant: the odd indices doubled instead of the even ones
LuhnTerm_OddDoubled(i, d) ==
    IF i % 2 = 1
    THEN IF d * 2 > 9 THEN d * 2 - 9 ELSE d * 2
    ELSE d

\* one iteration of "for i, d in enumerate(digits)"; i is 0-based
LuhnTerm(i, d) ==
    IF i % 2 = 0
    THEN IF d * 2 > 9 THEN d * 2 - 9 ELSE d * 2
    ELSE d

RECURSIVE LuhnTotal(_, _)
LuhnTotal(digits, n) ==
    IF n = 0 THEN 0
    ELSE LuhnTotal(digits, n - 1) + LuhnTerm(n - 1, digits[n])

\* "True", "False", or "raised" when int(d) raises ValueError
luhn_check(num) ==
    IF ~IsDigit(num) THEN "False"
    ELSE IF \E i \in 1..Len(num) : num[i] \notin DecimalChars THEN "raised"
    ELSE LET digits      == [i \in 1..Len(num) |-> IntOfChar(num[i])]
             check_digit == digits[Len(digits)]
             body        == ReversedBody(digits)
             total       == LuhnTotal(body, Len(body))
         IN  IF (total + check_digit) % 10 = 0 THEN "True" ELSE "False"

(***************************************************************************)
(* datetime.date: a date is [year, month, day]; comparison is that of the  *)
(* (year, month, day) tuples; date - timedelta goes through the ordinal    *)
(***************************************************************************)
MkDate(y, m, d) == [year |-> y, month |-> m, day |-> d]

IsLeap(y) == y % 4 = 0 /\ (y % 100 # 0 \/ y % 400 = 0)

DaysInMonth(y, m) ==
    IF m = 2 THEN (IF IsLeap(y) THEN 29 ELSE 28)
    ELSE IF m \in {4, 6, 9, 11} THEN 30 ELSE 31

DaysBeforeMonthTable == <<0, 31, 59, 90, 120, 151, 181, 212, 243, 273, 304, 334>>

DaysBeforeMonth(y, m) ==
    DaysBeforeMonthTable[m] + (IF m > 2 /\ IsLeap(y) THEN 1 ELSE 0)

DaysBeforeYear(y) ==
    LET p == y - 1 IN p * 365 + (p \div 4) - (p \div 100) + (p \div 400)

\* date.toordinal()
ToOrdinal(dt) ==
    DaysBeforeYear(dt.year) + DaysBeforeMonth(dt.year, dt.month) + dt.day

\* date.fromordinal(n)
FromOrdinal(ord) ==
    LET n0   == ord - 1
        n400 == n0 \div 146097
        r400 == n0 % 146097
        n100 == r400 \div 36524
        r100 == r400 % 36524
        n4   == r100 \div 1461
        r4   == r100 % 1461
        n1   == r4 \div 365
        n    == r4 % 365
        y    == n400 * 400 + 1 + n100 * 100 + n4 * 4 + n1
    IN  IF n1 = 4 \/ n100 = 4 THEN MkDate(y - 1, 12, 31)
        ELSE LET leap == n1 = 3 /\ (n4 # 24 \/ n100 = 3)
                 m0   == (n + 50) \div 32
                 p0   == DaysBeforeMonthTable[m0]
                           + (IF m0 > 2 /\ leap THEN 1 ELSE 0)
                 m    == IF p0 > n THEN m0 - 1 ELSE m0
                 p    == IF p0 > n
                         THEN p0 - (DaysInMonth(y, m0 - 1))
                         ELSE p0
             IN  MkDate(y, m, n - p + 1)

\* today - timedelta(days=k)
MinusDays(dt, k) == FromOrdinal(ToOrdinal(dt) - k)

\* a < b on dates
DateLess(a, b) ==
    \/ a.year < b.year
    \/ a.year = b.year /\ a.month < b.month
    \/ a.year = b.year /\ a.month = b.month /\ a.day < b.day

\* "%04d" / "%02d" of a non-negative integer
Pad2(n) == <<AsciiDigits[((n \div 10) % 10) + 1], AsciiDigits[(n % 10) + 1]>>

Pad4(n) == Pad2(n \div 100) \o Pad2(n % 100)

\* date.isoformat()
IsoFormat(dt) == Pad4(dt.year) \o <<"-">> \o Pad2(dt.month) \o <<"-">> \o Pad2(dt.day)

(***************************************************************************)
(* age_in_years                                                            *)
(***************************************************************************)
age_in_years(dob, tdy) ==
    LET years == tdy.year - dob.year
    IN  IF \/ tdy.month < dob.month
           \/ tdy.month = dob.month /\ tdy.day < dob.day
        THEN years - 1
        ELSE years

(***************************************************************************)
(* datetime.strptime: the format is compiled to a regular expression that  *)
(* is matched with re.match (first match under ordered alternation, with   *)
(* backtracking); text left over after the match is a ValueError, and so   *)
(* is a (year, month, day) that is no calendar date.                       *)
(*   %Y  \d\d\d\d        %m  1[0-2]|0[1-9]|[1-9]                           *)
(*   %d  3[01]|[12]\d|0[1-9]|[1-9]| [1-9]                                  *)
(* \d matches every decimal digit; the bracket classes are ASCII.          *)
(***************************************************************************)
Patterns == << <<"%Y", "-", "%m", "-", "%d">>,
               <<"%Y", "/", "%m", "/", "%d">>,
               <<"%d", "-", "%m", "-", "%Y">>,
               <<"%d", "/", "%m", "/", "%Y">>,
               <<"%Y", "%m", "%d">> >>

At(s, i) == IF i >= 1 /\ i <= Len(s) THEN s[i] ELSE "EOS"

InRange(c, lo, hi) ==
    \E v \in lo..hi : AsciiDigits[v + 1] = c

\* the alternatives of one directive that match at position pos, in the
\* regular expression's order, each as [len, val]
Alternatives(s, pos, dir) ==
    LET c1 == At(s, pos)
        c2 == At(s, pos + 1)
        two == IntOfChar(c1) * 10 + IntOfChar(c2)
        opt(cond, l, v) == IF cond THEN << [len |-> l, val |-> v] >> ELSE <<>>
    IN  IF dir = "%Y"
        THEN opt(\A k \in 0..3 : At(s, pos + k) \in DecimalChars, 4,
                 IF \A k \in 0..3 : At(s, pos + k) \in DecimalChars
                 THEN IntOfChar(At(s, pos)) * 1000 + IntOfChar(At(s, pos + 1)) * 100
                      + IntOfChar(At(s, pos + 2)) * 10 + IntOfChar(At(s, pos + 3))
                 ELSE 0)
        ELSE IF dir = "%m"
        THEN opt(c1 = "1" /\ InRange(c2, 0, 2), 2, two)
             \o opt(c1 = "0" /\ InRange(c2, 1, 9), 2, two)
             \o opt(InRange(c1, 1, 9), 1, IntOfChar(c1))
        ELSE IF dir = "%d"
        THEN opt(c1 = "3" /\ InRange(c2, 0, 1), 2, two)
             \o opt(InRange(c1, 1, 2) /\ c2 \in DecimalChars, 2, two)
             \o opt(c1 = "0" /\ InRange(c2, 1, 9), 2, two)
             \o opt(InRange(c1, 1, 9), 1, IntOfChar(c1))
             \o opt(c1 = " " /\ InRange(c2, 1, 9), 2, IntOfChar(c2))
        ELSE opt(c1 = dir, 1, 0)

RECURSIVE MatchFrom(_, _, _, _, _)
RECURSIVE FirstMatch(_, _, _, _, _, _, _)

\* re.match of pattern elements k.. at position pos; caps holds the values
\* captured so far.  <<>> is no match, else << [end, caps] >>
MatchFrom(s, pat, k, pos, caps) ==
    IF k > Len(pat) THEN << [end |-> pos, caps |-> caps] >>
    ELSE FirstMatch(s, pat, k, pos, caps, Alternatives(s, pos, pat[k]), 1)

FirstMatch(s, pat, k, pos, caps, alts, a) ==
    IF a > Len(alts) THEN <<>>
    ELSE LET caps2 == IF pat[k] \in {"%Y", "%m", "%d"}
                      THEN [caps EXCEPT ![pat[k]] = alts[a].val]
                      ELSE caps
             rest  == MatchFrom(s, pat, k + 1, pos + alts[a].len, caps2)
         IN  IF rest # <<>> THEN rest
             ELSE FirstMatch(s, pat, k, pos, caps, alts, a + 1)

\* the date constructor's range check
IsCalendarDate(y, m, d) ==
    /\ y >= 1 /\ y <= 9999
    /\ m >= 1 /\ m <= 12
    /\ d >= 1 /\ d <= DaysInMonth(y, m)

\* datetime.strptime(s, pat).date(): << date >>, or <<>> for ValueError
Strptime(s, pat) ==
    LET r == MatchFrom(s, pat, 1, 1, [x \in {"%Y", "%m", "%d"} |-> 0])
    IN  IF r = <<>> THEN <<>>
        ELSE IF r[1].end # Len(s) + 1 THEN <<>>
        ELSE LET c == r[1].caps
             IN  IF IsCalendarDate(c["%Y"], c["%m"], c["%d"])
                 THEN << MkDate(c["%Y"], c["%m"], c["%d"]) >>
                 ELSE <<>>

(***************************************************************************)
(* parse_date_flex: [date, errors], date is <<>> (None) or << date >>      *)
(***************************************************************************)
RECURSIVE TryPatterns(_, _)
TryPatterns(s, p) ==
    IF p > Len(Patterns) THEN <<>>
    ELSE LET dt == Strptime(s, Patterns[p])
         IN  IF dt # <<>> THEN dt ELSE TryPatterns(s, p + 1)

EmptyMsg(field_name) ==
    IF field_name = "Date of birth" THEN "Date of birth is empty"
    ELSE "Service date is empty"

InvalidMsg(field_name) ==
    IF field_name = "Date of birth"
    THEN "Date of birth is not a valid date in supported formats (expected something like YYYY-MM-DD)"
    ELSE "Service date is not a valid date in supported formats (expected something like YYYY-MM-DD)"

parse_date_flex(date_str, field_name, errors) ==
    IF date_str = <<>> \/ Strip(date_str) = <<>>
    THEN [date |-> <<>>, errors |-> Append(errors, EmptyMsg(field_name))]
    ELSE LET dt == TryPatterns(Strip(date_str), 1)
         IN  IF dt # <<>>
             THEN [date |-> dt, errors |-> errors]
             ELSE [date |-> <<>>, errors |-> Append(errors, InvalidMsg(field_name))]

(***************************************************************************)
(* validate_record                                                         *)
(***************************************************************************)
Labels == {"Patient ID", "PatientID", "Health Card Number", "Version Code",
           "Date of Birth", "Service Date"}

\* (raw_record.get(key) or "")
GetOrEmpty(raw, key) == IF key \in DOMAIN raw THEN raw[key] ELSE <<>>

\* (raw.get("Patient ID") or raw.get("PatientID") or "").strip()
PatientIdOf(raw) ==
    Strip(IF GetOrEmpty(raw, "Patient ID") # <<>>
          THEN GetOrEmpty(raw, "Patient ID")
          ELSE GetOrEmpty(raw, "PatientID"))

\* mutant: the replace(" ", "") left out
HealthCardOf_NoReplace(raw) == Strip(GetOrEmpty(raw, "Health Card Number"))

\* (raw.get("Health Card Number") or "").replace(" ", "").strip()
HealthCardOf(raw) == Strip(RemoveSpaces(GetOrEmpty(raw, "Health Card Number")))

VersionCodeOf(raw) == Strip(GetOrEmpty(raw, "Version Code"))

DobStrOf(raw) == Strip(GetOrEmpty(raw, "Date of Birth"))

ServiceStrOf(raw) == Strip(GetOrEmpty(raw, "Service Date"))

HealthCardLength == 10

VersionCodeLength == 2

MaxAgeYears == 150

SixMonthsDays == 183

\* ---- Rule 1: Health Card Number ----  [raised, errors]
HealthCardRule(health_card, errors) ==
    IF health_card = <<>>
    THEN [raised |-> FALSE,
          errors |-> Append(errors, "Health card number is missing")]
    ELSE IF ~IsDigit(health_card)
    THEN [raised |-> FALSE,
          errors |-> Append(errors, "Health card number must contain only digits")]
    ELSE IF Len(health_card) # HealthCardLength
    THEN [raised |-> FALSE,
          errors |-> Append(errors, "Health card number must be exactly 10 digits")]
    ELSE LET ok == luhn_check(health_card)
         IN  IF ok = "raised" THEN [raised |-> TRUE, errors |-> errors]
             ELSE IF ok = "False"
             THEN [raised |-> FALSE,
                   errors |-> Append(errors,
                       "Health card number failed MOD 10 (Luhn) validation")]
             ELSE [raised |-> FALSE, errors |-> errors]

\* ---- Rule 2: Version Code ----
VersionCodeRule(version_code, errors) ==
    IF version_code = <<>>
    THEN Append(errors, "Version code is missing")
    ELSE IF Len(version_code) # VersionCodeLength
    THEN Append(errors, "Version code must be exactly 2 characters")
    ELSE IF ~IsAlpha(version_code)
    THEN Append(errors, "Version code must contain only letters A-Z")
    ELSE IF ~IsUpper(version_code)
    THEN Append(errors, "Version code must be uppercase letters (A-Z)")
    ELSE errors

\* ---- Rule 3: Date of Birth ----  [date, errors]
\* the checks on a parsed date of birth; p is parse_date_flex's result
DateOfBirthChecks(p, tdy) ==
    IF p.date = <<>> THEN p
    ELSE IF DateLess(tdy, p.date[1])
    THEN [date |-> p.date,
          errors |-> Append(p.errors, "Date of birth is in the future")]
    ELSE [date |-> p.date,
          errors |-> p.errors
            \o (IF age_in_years(p.date[1], tdy) < 0
                THEN <<"Patient age cannot be negative">> ELSE <<>>)
            \o (IF age_in_years(p.date[1], tdy) >= MaxAgeYears
                THEN <<"Patient age must be less than 150 years">> ELSE <<>>)]

DateOfBirthRule(dob_str, tdy, errors) ==
    LET r == DateOfBirthChecks(parse_date_flex(dob_str, "Date of birth", <<>>), tdy)
    IN  [date |-> r.date, errors |-> errors \o r.errors]

\* mutant: "<=" for "<" in the six-months comparison
ServiceDateChecks_Inclusive(p, dob, tdy) ==
    IF p.date = <<>> THEN p
    ELSE [date |-> p.date,
          errors |-> p.errors
            \o (IF DateLess(tdy, p.date[1])
                THEN <<"Service date is in the future">> ELSE <<>>)
            \o (IF dob # <<>> /\ DateLess(p.date[1], dob[1])
                THEN <<"Service date is before date of birth">> ELSE <<>>)
            \o (IF ~DateLess(MinusDays(tdy, SixMonthsDays), p.date[1])
                THEN <<"Service date is more than 6 months in the past">>
                ELSE <<>>)]

\* ---- Rule 4: Service Date ----  [date, errors]
\* the checks on a parsed service date; p is parse_date_flex's result
ServiceDateChecks(p, dob, tdy) ==
    IF p.date = <<>> THEN p
    ELSE [date |-> p.date,
          errors |-> p.errors
            \o (IF DateLess(tdy, p.date[1])
                THEN <<"Service date is in the future">> ELSE <<>>)
            \o (IF dob # <<>> /\ DateLess(p.date[1], dob[1])
                THEN <<"Service date is before date of birth">> ELSE <<>>)
            \o (IF DateLess(p.date[1], MinusDays(tdy, SixMonthsDays))
                THEN <<"Service date is more than 6 months in the past">>
                ELSE <<>>)]

ServiceDateRule(service_str, dob, tdy, errors) ==
    LET r == ServiceDateChecks(parse_date_flex(service_str, "Service date", <<>>),
                               dob, tdy)
    IN  [date |-> r.date, errors |-> errors \o r.errors]

\* ---- Basic Patient ID presence check ----
PatientIdRule(patient_id, errors) ==
    IF patient_id = <<>> THEN Append(errors, "Patient ID is missing") ELSE errors

\* is_valid = (len(errors) == 0)
IsValid(errors) == Len(errors) = 0

PatientRecord(patient_id, health_card, version_code, dob_iso, service_iso) ==
    [PatientID |-> patient_id, HealthCardNumber |-> health_card,
     VersionCode |-> version_code, DateOfBirth |-> dob_iso,
     ServiceDate |-> service_iso]

\* lines 212-231: the decision and the normalized record
Decide(raw, errors, dob, service_date) ==
    IF ~IsValid(errors)
    THEN [result |-> "returned", is_valid |-> FALSE, errors |-> errors,
          normalized |-> <<>>, dob |-> dob, service_date |-> service_date]
    ELSE [result |-> "returned", is_valid |-> TRUE, errors |-> <<>>,
          normalized |-> << PatientRecord(PatientIdOf(raw), HealthCardOf(raw),
              VersionCodeOf(raw),
              IF dob # <<>> THEN IsoFormat(dob[1]) ELSE <<>>,
              IF service_date # <<>> THEN IsoFormat(service_date[1]) ELSE <<>>) >>,
          dob |-> dob, service_date |-> service_date]

\* mutant: the identifier error put before the other rules' errors
FromServiceDate_IdFirst(raw, tdy, r3, r4) ==
    Decide(raw, PatientIdRule(PatientIdOf(raw), <<>>) \o r4.errors,
           r3.date, r4.date)

\* lines 208-231: the identifier check and the decision, given the results
\* r3 of rule 3 and r4 of rule 4
FromServiceDate(raw, tdy, r3, r4) ==
    Decide(raw, PatientIdRule(PatientIdOf(raw), r4.errors), r3.date, r4.date)

\* lines 191-231: rule 4 onwards, given rule 3's result r3
FromDateOfBirth(raw, tdy, r3) ==
    FromServiceDate(raw, tdy, r3,
        ServiceDateRule(ServiceStrOf(raw), r3.date, tdy, r3.errors))

\* lines 168-231: rule 2 onwards, given the errors of rule 1
FromVersionCode(raw, tdy, errors) ==
    FromDateOfBirth(raw, tdy,
        DateOfBirthRule(DobStrOf(raw), tdy,
                        VersionCodeRule(VersionCodeOf(raw), errors)))

\* lines 157-231 given rule 1's result r1.  result = "raised": an exception
\* left the function and nothing was returned; errors, dob and service_date
\* are then the locals as they stood when it was raised.
FromHealthCard(raw, tdy, r1) ==
    IF r1.raised
    THEN [result |-> "raised", is_valid |-> FALSE, errors |-> r1.errors,
          normalized |-> <<>>, dob |-> <<>>, service_date |-> <<>>]
    ELSE FromVersionCode(raw, tdy, r1.errors)

validate_record(raw, tdy) ==
    FromHealthCard(raw, tdy, HealthCardRule(HealthCardOf(raw), <<>>))

(***************************************************************************)
(* Inputs.  A raw record is a function from the labels the table's header  *)
(* row held to the cell strings.                                           *)
(***************************************************************************)
Todays == {MkDate(2024, 7, 1), MkDate(2025, 3, 1)}

\* the identifier columns of a row
PatientIdInputs ==
    { ("Patient ID" :> <<"P", "0", "0", "1">>),
      ("PatientID" :> <<"P", "0", "0", "2">>),
      ("Patient ID" :> <<>>) @@ ("PatientID" :> <<" ", "P", "0", "0", "3">>),
      ("Patient ID" :> <<" ", "\t">>) @@ ("PatientID" :> <<"P", "0", "0", "4">>),
      <<>> }

\* Optional cell of the "Health Card Number" column (<<>>: no such column)
HealthCardInputs ==
    { <<>>,
      << <<"1", "2", "3", "4", "5", "6", "7", "8", "9", "0">> >>,
      << <<"1", "2", "3", "4", "5", "6", "7", "8", "9", "7">> >>,
      << <<"1", "2", "3", "4", " ", "5", "6", "7", " ", "8", "9", "7">> >>,
      << <<"1", "2", "3", "4", " ", "5", "6", "7", " ", "8", "9", "0">> >>,
      << <<"1", "2", "3", "4", "\t", "5", "6", "7", "8", "9", "7">> >>,
      << <<"\t", "1", "2", "3", "4", "5", "6", "7", "8", "9", "7", " ">> >>,
      << <<"1", "2", "3", "4", "5">> >>,
      << <<"1", "2", "A", "4", "5", "6", "7", "8", "9", "7">> >>,
      << <<"u0661", "u0662", "u0663", "u0664", "u0665",
           "u0666", "u0667", "u0668", "u0669", "u0667">> >>,
      << <<"u00B2", "u00B2", "u00B2", "u00B2", "u00B2",
           "u00B2", "u00B2", "u00B2", "u00B2", "u00B2">> >> }

VersionCodeInputs ==
    { <<>>,
      << <<"O", "N">> >>,
      << <<" ", "O", "N", " ">> >>,
      << <<"o", "n">> >>,
      << <<"O">> >>,
      << <<"O", "1">> >>,
      << <<"A", "u4E2D">> >>,
      << <<"u00C9", "N">> >> }

DateOfBirthInputs ==
    { <<>>,
      << <<"1", "9", "9", "0", "-", "0", "5", "-", "1", "5">> >>,
      << <<"1", "5", "/", "0", "5", "/", "1", "9", "9", "0">> >>,
      << <<"2", "9", "9", "9", "-", "0", "1", "-", "0", "1">> >>,
      << <<"1", "8", "5", "0", "-", "0", "1", "-", "0", "1">> >>,
      << <<"2", "0", "2", "4", "-", "0", "2", "-", "3", "0">> >>,
      << <<"2", "0", "2", "4", "0", "3", "0", "1">> >> }

\* days before today of the service dates written in ISO form
ServiceOffsets == {0 - 1, 0, 183, 184}

ServiceDateInputs(tdy) ==
    { << IsoFormat(MinusDays(tdy, k)) >> : k \in ServiceOffsets }
    \cup { <<>>,
           << <<"n", "/", "a">> >>,
           << <<"3", "1", "/", "1", "2", "/", "2", "0", "2", "3">> >>,
           << <<"1", "9", "8", "0", "0", "1", "0", "1">> >> }

\* the row as the extraction step hands it over
RawRecordOf(ids, hc, vc, dob, sd) ==
    LET cells == [k \in {"Health Card Number", "Version Code",
                         "Date of Birth", "Service Date"} |->
                    IF k = "Health Card Number" THEN hc
                    ELSE IF k = "Version Code" THEN vc
                    ELSE IF k = "Date of Birth" THEN dob
                    ELSE sd]
        present == {k \in DOMAIN cells : cells[k] # <<>>}
    IN  [k \in (DOMAIN ids) \cup present |->
            IF k \in DOMAIN ids THEN ids[k] ELSE cells[k][1]]

RawRecordInputs(tdy) ==
    { RawRecordOf(ids, hc, vc, dob, sd) :
        ids \in PatientIdInputs, hc \in HealthCardInputs,
        vc \in VersionCodeInputs, dob \in DateOfBirthInputs,
        sd \in ServiceDateInputs(tdy) }

NoOutcome == [result |-> "none", is_valid |-> FALSE, errors |-> <<>>,
              normalized |-> <<>>, dob |-> <<>>, service_date |-> <<>>]

NoCounts == [total_count |-> 0, valid_count |-> 0, invalid_count |-> 0]

(***************************************************************************)
(* Spec: one call of validate_record(raw_record, today)                    *)
(***************************************************************************)
Init ==
    /\ pc = "call"
    /\ today \in Todays
    /\ raw_record \in RawRecordInputs(today)
    /\ outcome = NoOutcome
    /\ raw_records = <<>>
    /\ idx = 0
    /\ valid_records = <<>>
    /\ error_info = <<>>
    /\ counts = NoCounts
    /\ number = <<>>
    /\ luhn_result = "none"

Validate ==
    /\ pc = "call"
    /\ outcome' = validate_record(raw_record, today)
    /\ pc' = "done"
    /\ UNCHANGED <<raw_record, today, raw_records, idx, valid_records,
                   error_info, counts, number, luhn_result>>

Next == Validate

Spec == Init /\ [][Next]_vars

(***************************************************************************)
(* SpecBatch: the validation loop of main() over raw_records               *)
(***************************************************************************)
MaxBatch == 3

\* rows of a batch: two acceptable ones, two rejected ones and one whose
\* health card is ten SUPERSCRIPT TWO characters
BatchRows(tdy) ==
    LET good_hc == << <<"1", "2", "3", "4", "5", "6", "7", "8", "9", "7">> >>
        sup_hc  == << <<"u00B2", "u00B2", "u00B2", "u00B2", "u00B2",
                        "u00B2", "u00B2", "u00B2", "u00B2", "u00B2">> >>
        on      == << <<"O", "N">> >>
        dob     == << <<"1", "9", "9", "0", "-", "0", "5", "-", "1", "5">> >>
        svc     == << IsoFormat(tdy) >>
    IN  { RawRecordOf(("Patient ID" :> <<"P", "0", "0", "1">>), good_hc, on, dob, svc),
          RawRecordOf(("PatientID" :> <<"P", "0", "0", "2">>), good_hc, on, dob, svc),
          RawRecordOf(("Patient ID" :> <<"P", "0", "0", "3">>), good_hc,
                      << <<"o", "n">> >>, dob, svc),
          RawRecordOf(<<>>, << <<"1", "2", "3", "4", "5">> >>, on, dob, <<>>),
          RawRecordOf(("Patient ID" :> <<"P", "0", "0", "5">>), sup_hc, on, dob, svc) }

Batches(tdy) == UNION { [1..n -> BatchRows(tdy)] : n \in 0..MaxBatch }

InitBatch ==
    /\ pc = "loop"
    /\ today \in Todays
    /\ raw_records \in Batches(today)
    /\ idx = 0
    /\ valid_records = <<>>
    /\ error_info = <<>>
    /\ counts = NoCounts
    /\ raw_record = <<>>
    /\ outcome = NoOutcome
    /\ number = <<>>
    /\ luhn_result = "none"

\* the body of "for raw in raw_records", r being validate_record's result;
\* an exception raised by validate_record is caught nowhere and ends the
\* program
LoopBody(patient_id, r) ==
    IF r.result = "raised"
    THEN /\ pc' = "crashed"
         /\ UNCHANGED <<idx, valid_records, error_info>>
    ELSE /\ pc' = "loop"
         /\ idx' = idx + 1
         /\ IF r.is_valid /\ r.normalized # <<>>
            THEN /\ valid_records' = Append(valid_records, r.normalized[1])
                 /\ UNCHANGED error_info
            ELSE /\ error_info' = Append(error_info, <<patient_id, r.errors>>)
                 /\ UNCHANGED valid_records

LoopStep ==
    /\ pc = "loop"
    /\ idx < Len(raw_records)
    /\ LoopBody(PatientIdOf(raw_records[idx + 1]),
                validate_record(raw_records[idx + 1], today))
    /\ UNCHANGED <<raw_record, today, outcome, raw_records, counts, number,
                   luhn_result>>

\* total_count, valid_count, invalid_count after the loop
Count ==
    /\ pc = "loop"
    /\ idx = Len(raw_records)
    /\ counts' = [total_count   |-> Len(raw_records),
                  valid_count   |-> Len(valid_records),
                  invalid_count |-> Len(error_info)]
    /\ pc' = "counted"
    /\ UNCHANGED <<raw_record, today, outcome, raw_records, idx, valid_records,
                   error_info, number, luhn_result>>

NextBatch == LoopStep \/ Count

SpecBatch == InitBatch /\ [][NextBatch]_vars

(***************************************************************************)
(* SpecLuhn: one call of luhn_check(number)                                *)
(***************************************************************************)
MaxDigits == 4

DigitStrings ==
    UNION { [1..n -> SeqRange(AsciiDigits)] : n \in 1..MaxDigits }

\* the ten-character health cards of the inputs above, blanks removed
TenDigitCards ==
    { HealthCardOf("Health Card Number" :> hc[1]) : hc \in HealthCardInputs \ {<<>>} }

InitLuhn ==
    /\ pc = "luhn"
    /\ number \in DigitStrings \cup TenDigitCards
    /\ luhn_result = "none"
    /\ today = MkDate(2024, 7, 1)
    /\ raw_record = <<>>
    /\ outcome = NoOutcome
    /\ raw_records = <<>>
    /\ idx = 0
    /\ valid_records = <<>>
    /\ error_info = <<>>
    /\ counts = NoCounts

LuhnCall ==
    /\ pc = "luhn"
    /\ luhn_result' = luhn_check(number)
    /\ pc' = "luhn_done"
    /\ UNCHANGED <<raw_record, today, outcome, raw_records, idx, valid_records,
                   error_info, counts, number>>

NextLuhn == LuhnCall

SpecLuhn == InitLuhn /\ [][NextLuhn]_vars

(***************************************************************************)
(* Properties                                                              *)
(***************************************************************************)
Done == pc = "done"

Returned == pc = "done" /\ outcome.result = "returned"

Reported(msg) == \E i \in 1..Len(outcome.errors) : outcome.errors[i] = msg

HealthCardMsgs ==
    {"Health card number is missing",
     "Health card number must contain only digits",
     "Health card number must be exactly 10 digits",
     "Health card number failed MOD 10 (Luhn) validation"}

VersionCodeMsgs ==
    {"Version code is missing",
     "Version code must be exactly 2 characters",
     "Version code must contain only letters A-Z",
     "Version code must be uppercase letters (A-Z)"}

DateOfBirthMsgs ==
    {EmptyMsg("Date of birth"), InvalidMsg("Date of birth"),
     "Date of birth is in the future",
     "Patient age cannot be negative",
     "Patient age must be less than 150 years"}

ServiceDateMsgs ==
    {EmptyMsg("Service date"), InvalidMsg("Service date"),
     "Service date is in the future",
     "Service date is before date of birth",
     "Service date is more than 6 months in the past"}

CountIn(errors, msgs) == Cardinality({i \in 1..Len(errors) : errors[i] \in msgs})

\* the errors the five rules yield when each is run on its own field
RuleErrors(raw, tdy) ==
    HealthCardRule(HealthCardOf(raw), <<>>).errors
    \o VersionCodeRule(VersionCodeOf(raw), <<>>)
    \o DateOfBirthRule(DobStrOf(raw), tdy, <<>>).errors
    \o ServiceDateRule(ServiceStrOf(raw),
                       parse_date_flex(DobStrOf(raw), "Date of birth", <<>>).date,
                       tdy, <<>>).errors
    \o PatientIdRule(PatientIdOf(raw), <<>>)

\* C1: every call of validate_record ends with (True, no errors, a record)
\* or (False, at least one error, no record), and the record is accepted
\* exactly when no rule yields an error.
C1_ConsistentShapes ==
    Done =>
        /\ outcome.result = "returned"
        /\ \/ outcome.is_valid /\ outcome.errors = <<>> /\ Len(outcome.normalized) = 1
           \/ ~outcome.is_valid /\ outcome.errors # <<>> /\ outcome.normalized = <<>>
        /\ outcome.is_valid <=> (RuleErrors(raw_record, today) = <<>>)

\* position of a message's rule in the order of spec section 4.3
SpecRank(msg) ==
    IF msg = "Patient ID is missing" THEN 1
    ELSE IF msg \in HealthCardMsgs THEN 2
    ELSE IF msg \in VersionCodeMsgs THEN 3
    ELSE IF msg \in DateOfBirthMsgs THEN 4
    ELSE 5

\* position of a message's rule in the order the source evaluates the rules
SourceRank(msg) ==
    IF msg \in HealthCardMsgs THEN 1
    ELSE IF msg \in VersionCodeMsgs THEN 2
    ELSE IF msg \in DateOfBirthMsgs THEN 3
    ELSE IF msg \in ServiceDateMsgs THEN 4
    ELSE 5

\* C2 as stated: the returned error list is ordered identifier presence,
\* health card, version code, date of birth, service date, so that
\* "Patient ID is missing" precedes every other error.
C2_SpecOrder ==
    Returned =>
        \A i, j \in 1..Len(outcome.errors) :
            i < j => SpecRank(outcome.errors[i]) <= SpecRank(outcome.errors[j])

\* C2 amended: the returned error list is ordered health card, version code,
\* date of birth, service date, identifier presence, so that "Patient ID is
\* missing" follows every other error; every message belongs to one of the
\* five rules.
C2_SourceOrder ==
    Returned =>
        /\ \A i, j \in 1..Len(outcome.errors) :
             i < j => SourceRank(outcome.errors[i]) <= SourceRank(outcome.errors[j])
        /\ \A i \in 1..Len(outcome.errors) :
             outcome.errors[i] \in HealthCardMsgs \cup VersionCodeMsgs
                 \cup DateOfBirthMsgs \cup ServiceDateMsgs
                 \cup {"Patient ID is missing"}
        /\ Reported("Patient ID is missing") =>
             outcome.errors[Len(outcome.errors)] = "Patient ID is missing"

\* a record without identifier that fails the health-card length, the
\* version-code uppercase and the date-of-birth future checks
C2_Witness ==
    /\ Returned
    /\ Len(outcome.errors) >= 4
    /\ outcome.errors[1] = "Health card number must be exactly 10 digits"
    /\ outcome.errors[2] = "Version code must be uppercase letters (A-Z)"
    /\ outcome.errors[3] = "Date of birth is in the future"
    /\ Reported("Patient ID is missing")

\* C3: validate_record never raises: every call ends by returning an outcome.
C3_NeverRaises == Done => outcome.result = "returned"

\* the record of end-to-end scenario A, with the given health card number
ScenarioA(hc, tdy) ==
    RawRecordOf(("Patient ID" :> <<"P", "0", "0", "1">>), << hc >>,
                << <<"O", "N">> >>,
                << <<"1", "9", "9", "0", "-", "0", "5", "-", "1", "5">> >>,
                << IsoFormat(tdy) >>)

\* the normalized record scenario A expects
ScenarioARecord(hc, tdy) ==
    [PatientID |-> <<"P", "0", "0", "1">>, HealthCardNumber |-> hc,
     VersionCode |-> <<"O", "N">>,
     DateOfBirth |-> <<"1", "9", "9", "0", "-", "0", "5", "-", "1", "5">>,
     ServiceDate |-> IsoFormat(tdy)]

Card1234567890 == <<"1", "2", "3", "4", "5", "6", "7", "8", "9", "0">>

Card1234567897 == <<"1", "2", "3", "4", "5", "6", "7", "8", "9", "7">>

\* C4 as stated: the scenario A record with health card 1234567890 is
\* accepted with no errors and the expected normalized record.
C4_ScenarioAAccepted ==
    (Done /\ raw_record = ScenarioA(Card1234567890, today)) =>
        /\ outcome.result = "returned"
        /\ outcome.is_valid
        /\ outcome.errors = <<>>
        /\ outcome.normalized = << ScenarioARecord(Card1234567890, today) >>

\* C4 amended: the scenario A record with health card 1234567890 is rejected
\* with the MOD-10 error as its only error and no record; the same record
\* with health card 1234567897 is accepted with no errors and the expected
\* normalized record.
C4_ScenarioAChecksum ==
    /\ (Done /\ raw_record = ScenarioA(Card1234567890, today)) =>
          /\ outcome.result = "returned"
          /\ ~outcome.is_valid
          /\ outcome.errors =
                <<"Health card number failed MOD 10 (Luhn) validation">>
          /\ outcome.normalized = <<>>
    /\ (Done /\ raw_record = ScenarioA(Card1234567897, today)) =>
          /\ outcome.result = "returned"
          /\ outcome.is_valid
          /\ outcome.errors = <<>>
          /\ outcome.normalized = << ScenarioARecord(Card1234567897, today) >>

C4_Witness ==
    /\ Done
    /\ raw_record = ScenarioA(Card1234567890, today)
    /\ age_in_years(MkDate(1990, 5, 15), today) < MaxAgeYears

\* the normalized records of the accepted rows among the first n, in input
\* order
RECURSIVE AcceptedOf(_, _, _)
AcceptedOf(rows, n, tdy) ==
    IF n = 0 THEN <<>>
    ELSE AcceptedOf(rows, n - 1, tdy) \o validate_record(rows[n], tdy).normalized

\* (identifier, errors) of the rejected rows among the first n, in input order
RejectedEntry(raw, r) ==
    IF r.result = "returned" /\ ~r.is_valid
    THEN << <<PatientIdOf(raw), r.errors>> >>
    ELSE <<>>

RECURSIVE RejectedOf(_, _, _)
RejectedOf(rows, n, tdy) ==
    IF n = 0 THEN <<>>
    ELSE RejectedOf(rows, n - 1, tdy)
         \o RejectedEntry(rows[n], validate_record(rows[n], tdy))

\* C5: once the validation loop is over, every input record is in exactly
\* one of valid_records and error_info, the counts add up to the length of
\* the input, each of the two sequences keeps the input order, and the
\* loop went through every record.
C5_PartitionComplete ==
    (pc \in {"counted", "crashed"}) =>
        /\ pc = "counted"
        /\ idx = Len(raw_records)
        /\ Len(valid_records) + Len(error_info) = Len(raw_records)
        /\ counts.valid_count + counts.invalid_count = counts.total_count
        /\ counts.total_count = Len(raw_records)
        /\ valid_records = AcceptedOf(raw_records, Len(raw_records), today)
        /\ error_info = RejectedOf(raw_records, Len(raw_records), today)

\* the MOD-10 check stated by positions counted from the right: position 1
\* is the check digit, every digit at an even position is replaced by the
\* digit sum of its double, and the total must be a multiple of 10
RefDouble(d) == ((2 * d) \div 10) + ((2 * d) % 10)

RECURSIVE RefSum(_, _)
RefSum(s, p) ==
    IF p > Len(s) THEN 0
    ELSE (IF p % 2 = 0
          THEN RefDouble(IntOfChar(s[Len(s) - p + 1]))
          ELSE IntOfChar(s[Len(s) - p + 1]))
         + RefSum(s, p + 1)

RefMod10(s) == RefSum(s, 1) % 10 = 0

AllIn(s, chars) == \A i \in 1..Len(s) : s[i] \in chars

\* the date an ISO string YYYY-MM-DD names
IsoDate(s) ==
    MkDate(IntOfChar(s[1]) * 1000 + IntOfChar(s[2]) * 100
               + IntOfChar(s[3]) * 10 + IntOfChar(s[4]),
           IntOfChar(s[6]) * 10 + IntOfChar(s[7]),
           IntOfChar(s[9]) * 10 + IntOfChar(s[10]))

\* s is YYYY-MM-DD in ASCII digits and names a calendar date
IsIsoDate(s) ==
    /\ Len(s) = 10
    /\ s[5] = "-" /\ s[8] = "-"
    /\ \A i \in {1, 2, 3, 4, 6, 7, 9, 10} : s[i] \in SeqRange(AsciiDigits)
    /\ IsCalendarDate(IsoDate(s).year, IsoDate(s).month, IsoDate(s).day)

\* completed years: the number of anniversaries (year + n, month, day) of
\* dob that are not after tdy
CompletedYears(dob, tdy) ==
    Cardinality({n \in 1..(tdy.year - dob.year) :
                    ~DateLess(tdy, MkDate(dob.year + n, dob.month, dob.day))})

NormalizedSatisfiesRules(rec, tdy) ==
    /\ rec.PatientID # <<>>
    /\ Len(rec.HealthCardNumber) = 10
    /\ AllIn(rec.HealthCardNumber, SeqRange(AsciiDigits))
    /\ RefMod10(rec.HealthCardNumber)
    /\ Len(rec.VersionCode) = 2
    /\ AllIn(rec.VersionCode, UpperChars)
    /\ IsIsoDate(rec.DateOfBirth)
    /\ IsIsoDate(rec.ServiceDate)
    /\ ToOrdinal(IsoDate(rec.DateOfBirth)) <= ToOrdinal(IsoDate(rec.ServiceDate))
    /\ ToOrdinal(IsoDate(rec.ServiceDate)) <= ToOrdinal(tdy)
    /\ ToOrdinal(IsoDate(rec.ServiceDate)) >= ToOrdinal(tdy) - 183
    /\ CompletedYears(IsoDate(rec.DateOfBirth), tdy) < 150

\* C6: every PatientRecord that validate_record produces satisfies every
\* acceptance rule in its normalized fields, and none is produced for a
\* record that fails a rule.
C6_NormalizedValid ==
    Done =>
        /\ \A i \in 1..Len(outcome.normalized) :
              NormalizedSatisfiesRules(outcome.normalized[i], today)
        /\ outcome.normalized # <<>> => RuleErrors(raw_record, today) = <<>>

SixMonthsMsg == "Service date is more than 6 months in the past"

\* the raw service date is the ISO form of the day k days before today
ServiceDaysBefore(raw, tdy, k) ==
    /\ "Service Date" \in DOMAIN raw
    /\ raw["Service Date"] = IsoFormat(FromOrdinal(ToOrdinal(tdy) - k))

\* the record is the accepted scenario A record but for its service date
OtherwiseValid(raw, tdy) ==
    /\ "Service Date" \in DOMAIN raw
    /\ raw = [ScenarioA(Card1234567897, tdy) EXCEPT
                !["Service Date"] = raw["Service Date"]]

\* C7: the six-months error is reported exactly when the service date
\* parsed and lies more than 183 days before today, whether or not the date
\* of birth parsed; a service date 183 days before today is not flagged and
\* leaves an otherwise valid record accepted; one 184 days before today is
\* flagged, as the only error of an otherwise valid record.
C7_SixMonthWindow ==
    Done =>
        /\ Reported(SixMonthsMsg) <=>
              /\ outcome.service_date # <<>>
              /\ ToOrdinal(outcome.service_date[1]) < ToOrdinal(today) - 183
        /\ ServiceDaysBefore(raw_record, today, 183) => ~Reported(SixMonthsMsg)
        /\ (ServiceDaysBefore(raw_record, today, 183) /\ OtherwiseValid(raw_record, today))
              => outcome.is_valid
        /\ (ServiceDaysBefore(raw_record, today, 184) /\ outcome.result = "returned")
              => Reported(SixMonthsMsg)
        /\ (ServiceDaysBefore(raw_record, today, 184) /\ OtherwiseValid(raw_record, today))
              => outcome.errors = << SixMonthsMsg >>

\* an otherwise valid record with the service date 183 days before today,
\* accepted
C7_Witness ==
    /\ Done
    /\ ServiceDaysBefore(raw_record, today, 183)
    /\ OtherwiseValid(raw_record, today)
    /\ outcome.is_valid

\* s without the characters in chars
RECURSIVE Without(_, _)
Without(s, chars) ==
    IF s = <<>> THEN <<>>
    ELSE (IF Head(s) \in chars THEN <<>> ELSE << Head(s) >>)
         \o Without(Tail(s), chars)

\* the record with the characters in chars removed from its health card
WithoutInHealthCard(raw, chars) ==
    IF "Health Card Number" \in DOMAIN raw
    THEN [raw EXCEPT !["Health Card Number"] = Without(@, chars)]
    ELSE raw

\* C8 as stated: a record whose health card holds whitespace (blanks, tabs)
\* has the outcome of the record with that whitespace removed.
C8_WhitespaceRemoved ==
    Done => outcome = validate_record(
                WithoutInHealthCard(raw_record, WhitespaceChars), today)

\* C8 amended: a record whose health card holds blanks (U+0020) has the
\* outcome, and so the normalized health card number, of the record with
\* the blanks removed; a tab between the digits is not removed and the
\* record is rejected with the only-digits error.
C8_BlanksRemoved ==
    Done =>
        /\ outcome = validate_record(WithoutInHealthCard(raw_record, {" "}), today)
        /\ \A i \in 1..Len(outcome.normalized) :
              outcome.normalized[i].HealthCardNumber =
                  Without(raw_record["Health Card Number"], WhitespaceChars)
        /\ ("Health Card Number" \in DOMAIN raw_record
            /\ outcome.result = "returned"
            /\ "\t" \in SeqRange(Strip(raw_record["Health Card Number"])))
           => Reported("Health card number must contain only digits")

\* "1234 567 897" accepted as 1234567897
C8_Witness ==
    /\ Done
    /\ "Health Card Number" \in DOMAIN raw_record
    /\ raw_record["Health Card Number"]
          = <<"1", "2", "3", "4", " ", "5", "6", "7", " ", "8", "9", "7">>
    /\ outcome.is_valid
    /\ outcome.normalized[1].HealthCardNumber = Card1234567897

\* 1 when the rule run on its own field yields an error or cannot finish
FailCount(failed) == IF failed THEN 1 ELSE 0

FailingFields(raw, tdy) ==
    FailCount(HealthCardRule(HealthCardOf(raw), <<>>).raised
              \/ HealthCardRule(HealthCardOf(raw), <<>>).errors # <<>>)
    + FailCount(VersionCodeRule(VersionCodeOf(raw), <<>>) # <<>>)
    + FailCount(DateOfBirthRule(DobStrOf(raw), tdy, <<>>).errors # <<>>)
    + FailCount(ServiceDateRule(ServiceStrOf(raw), <<>>, tdy, <<>>).errors # <<>>)
    + FailCount(PatientIdRule(PatientIdOf(raw), <<>>) # <<>>)

\* C9: every call reports at most one health-card error and at most one
\* version-code error, the checksum error only for a ten-digit value, and
\* at least as many errors as there are failing fields.
C9_CascadeNoSuppression ==
    Done =>
        /\ CountIn(outcome.errors, HealthCardMsgs) <= 1
        /\ CountIn(outcome.errors, VersionCodeMsgs) <= 1
        /\ Reported("Health card number failed MOD 10 (Luhn) validation")
              => Len(HealthCardOf(raw_record)) = 10 /\ IsDigit(HealthCardOf(raw_record))
        /\ outcome.result = "returned"
        /\ Len(outcome.errors) >= FailingFields(raw_record, today)

\* C10: on every non-empty string of decimal digits luhn_check returns True
\* exactly when the MOD-10 sum over the positions from the right is a
\* multiple of 10.
C10_LuhnAgreesWithMod10 ==
    (pc = "luhn_done" /\ number # <<>> /\ AllIn(number, DecimalChars)) =>
        luhn_result = (IF RefMod10(number) THEN "True" ELSE "False")

\* a ten-digit number passing the check, and the call made
C10_Witness ==
    /\ pc = "luhn_done"
    /\ number = Card1234567897
    /\ luhn_result = "True"

====
